---- MODULE Spec2Model ----
(***************************************************************************)
(* A model of the 1D electrostatic Particle-In-Cell tool of the repository *)
(* (backend/app/agent/tools/pic/pic.py and pic_simulation.py).             *)
(*                                                                         *)
(* Numbers.  The program computes in IEEE doubles.  The model computes in  *)
(* a scaled binary floating-point format: a number is an integer count of  *)
(* 1/Unit, and a representable number is m * 2^e / Unit with |m| <         *)
(* 2^MantBits and e >= 0.  Every arithmetic operation computes the exact   *)
(* result and rounds it to the nearest representable number, ties to even, *)
(* as the hardware does.  Unit is chosen so that the program's constants   *)
(* (L = 64.0, dt = 0.1, re = -1.0) and the charges of charge() for the     *)
(* three simulation types are exact; particle counts are counted in        *)
(* thousands (10000 particles are 10 model particles).                     *)
(***************************************************************************)
EXTENDS Integers, Sequences, FiniteSets, TLC

VARIABLES
    simulation_type, steps, grid_size,  \* the parameters call() parsed
    fma,          \* the build: does the compiler contract a*b+c into one rounding
    pc,           \* host position in call() / _run_simulation()
    it,           \* loop counter of `for it in range(steps)`
    xp1, vp1, xp2, vp2,   \* device arrays of the two species
    rho_grid, Eg,         \* device grids
    rho_cpu, Phi_cpu, Eg_cpu,  \* host copies made in the step
    chg,          \* (Q1, Q2, rho_ions) returned by charge()
    Ax,           \* the sparse operator of poisson_equation_preparation
    nfact,        \* LU factorizations performed so far (inside spsolve)
    stream,       \* device work queued on the CUDA stream, oldest first
    frames,       \* the list `frames`
    result,       \* what call() returned: "none", "success", "error"
    stop_flag,    \* session['stop_flag'] of the session running the tool
    stage,        \* the last stage of the loop whose effect has been applied
    tdone,        \* thread-level runs: the threads << species, idx >> that have run
    samp_N, samp_v0,      \* arguments N and v_0 of acceptance_rejection_cupy
    accepted_speeds,      \* accepted_speeds.size in acceptance_rejection_cupy
    connection_sessions,  \* chat.py: sid -> session id
    active_sessions,      \* LLMService.active_sessions: session id -> session dict
    session_objs,         \* the session dicts ever created, by identity
    tasks,                \* the message handlers started so far
    disconnected          \* the sids whose disconnect handler has run

vars == << simulation_type, steps, grid_size, fma, pc, it, xp1, vp1, xp2, vp2,
           rho_grid, Eg, rho_cpu, Phi_cpu, Eg_cpu, chg, Ax, nfact, stream,
           frames, result, stop_flag, stage, tdone, samp_N, samp_v0,
           accepted_speeds, connection_sessions, active_sessions, session_objs,
           tasks, disconnected >>

samplerVars == << samp_N, samp_v0, accepted_speeds >>

chatVars == << connection_sessions, active_sessions, session_objs, tasks,
               disconnected >>

-----------------------------------------------------------------------------
(* Bounds of the model *)

\* bits of the significand (53 in the program's doubles)
MantBits == 12

\* particles per species when one kernel launch is followed thread by thread
KernelN == 2

\* 1/Unit is the finest spacing of the number format; 8 * 15 makes Ng/N1,
\* Ng/N2 and N_ions/N1 exact for the particle counts of the three types
Unit == 8 * 15

-----------------------------------------------------------------------------
(* Floating-point arithmetic *)

Abs(a) == IF a < 0 THEN -a ELSE a

Sgn(a) == IF a < 0 THEN -1 ELSE 1

RECURSIVE Expo(_, _, _)
\* the exponent e of the binade of a/d: the least e >= 0 with a/(d*2^e) < 2^MantBits
Expo(a, d, e) == IF a \div (d * 2^e) < 2^MantBits THEN e ELSE Expo(a, d, e + 1)

\* n/d (d > 0) rounded to the nearest representable number, ties to even
Rnd(n, d) ==
    LET a   == Abs(n)
        e   == Expo(a, d, 0)
        den == d * 2^e
        q   == a \div den
        r   == a % den
        m   == IF 2 * r > den THEN q + 1
               ELSE IF 2 * r < den THEN q
               ELSE IF q % 2 = 0 THEN q ELSE q + 1
    IN  Sgn(n) * m * 2^e

FAdd(a, b) == Rnd(a + b, 1)

FMul(a, b) == Rnd(a * b, Unit)

FDiv(a, b) == IF b > 0 THEN Rnd(a * Unit, b) ELSE Rnd(-(a * Unit), -b)

\* a*b + c: one rounding when the build contracts it (fused), two otherwise
FMulAdd(a, b, c, fused) ==
    IF fused THEN Rnd(a * b + c * Unit, Unit) ELSE FAdd(FMul(a, b), c)

\* C fmod(a, m), m > 0: exact, with the sign of a
Fmod(a, m) == Sgn(a) * (Abs(a) % m)

\* C round(): to the nearest integer, halves away from zero
CRound(a) == Sgn(a) * ((2 * Abs(a) + Unit) \div (2 * Unit))

\* C's % on ints: truncated division, the result has the sign of a
CMod(a, m) == Sgn(a) * (Abs(a) % m)

\* an integer of the program as a number
Num(k) == k * Unit

-----------------------------------------------------------------------------
(* Program constants, pic_simulation.py lines 129-137 *)

L == Num(64)

wp_e == Num(1)

\* 0.1
dt == Unit \div 10

\* counted in thousands of particles
N_ions == 20000 \div 1000

\* v_th = 1.0
v_th == Num(1)

\* defaults of beam_velocity_1 and beam_velocity_2, lines 85-86
beam_v1 == Num(5)

beam_v2 == Num(-5)

\* amplitude 0.1 and mode 1 of the perturbation, lines 154-155
amplitude == Unit \div 10

mode == 1

-----------------------------------------------------------------------------
(* The CUDA kernels, pic.py lines 100-129 *)

\* (a variant of GridIdx that forgets to wrap the index into the grid)
GridIdxNoWrap(pos, dx, Ng) == CRound(FDiv(pos, dx))

\* (a variant of GridIdx with a single %: C's % keeps the sign of a negative
\* index)
GridIdxSingleMod(pos, dx, Ng) == CMod(CRound(FDiv(pos, dx)), Ng)

\* lines 106-107 and 119-120: int grid_idx = round(pos / dx);
\*                            grid_idx = (grid_idx % Ng + Ng) % Ng;
GridIdx(pos, dx, Ng) ==
    LET grid_idx == CRound(FDiv(pos, dx))
    IN  CMod(CMod(grid_idx, Ng) + Ng, Ng)

\* (a variant of AtomicAdd that is a plain a[i] += val of a thread that read
\* a[i] before the other threads wrote it: their updates are lost)
RacyAdd(a, i, val) == [a EXCEPT ![i] = val]

\* atomicAdd(&a[i], val): one indivisible read-modify-write
AtomicAdd(a, i, val) == [a EXCEPT ![i] = FAdd(@, val)]

\* one thread of deposit_charge_kernel: rho_grid after thread idx has run
DepositThread(positions, idx, charge_per_particle, dx, Ng, rho) ==
    AtomicAdd(rho, GridIdx(positions[idx], dx, Ng), FDiv(charge_per_particle, dx))

RECURSIVE DepositFrom(_, _, _, _, _, _, _)
DepositFrom(idx, positions, N, charge_per_particle, dx, Ng, rho) ==
    IF idx > N THEN rho
    ELSE DepositFrom(idx + 1, positions, N, charge_per_particle, dx, Ng,
                     DepositThread(positions, idx, charge_per_particle, dx, Ng, rho))

\* a whole launch of deposit_charge_kernel over threads 1..N
DepositKernel(positions, N, charge_per_particle, dx, Ng, rho) ==
    DepositFrom(1, positions, N, charge_per_particle, dx, Ng, rho)

\* (a variant of PushThread that moves the particle with the velocity it had
\* before the field acted on it)
PushThreadOldVelocity(xp, vp, idx, E, re, dtt, dx, Ng, LL, fused) ==
    LET E_particle == E[GridIdx(xp[idx], dx, Ng)]
        v_new      == FMulAdd(FMul(re, E_particle), dtt, vp[idx], fused)
        wrapped    == Fmod(FMulAdd(vp[idx], dtt, xp[idx], fused), LL)
    IN  << IF wrapped < 0 THEN FAdd(wrapped, LL) ELSE wrapped, v_new >>

\* one thread of push_particles_kernel: the new <<xp[idx], vp[idx]>>
PushThread(xp, vp, idx, E, re, dtt, dx, Ng, LL, fused) ==
    LET pos        == xp[idx]
        grid_idx   == GridIdx(pos, dx, Ng)
        E_particle == E[grid_idx]
        v_new      == FMulAdd(FMul(re, E_particle), dtt, vp[idx], fused)
        new_pos    == FMulAdd(v_new, dtt, xp[idx], fused)
        wrapped    == Fmod(new_pos, LL)
    IN  << IF wrapped < 0 THEN FAdd(wrapped, LL) ELSE wrapped, v_new >>

\* a whole launch of push_particles_kernel: the new << xp, vp >>
PushKernel(xp, vp, N, E, re, dtt, dx, Ng, LL, fused) ==
    << [i \in 1..N |-> PushThread(xp, vp, i, E, re, dtt, dx, Ng, LL, fused)[1]],
       [i \in 1..N |-> PushThread(xp, vp, i, E, re, dtt, dx, Ng, LL, fused)[2]] >>

-----------------------------------------------------------------------------
(* Setup functions, pic.py lines 132-153 *)

\* charge(): << Q_1, Q_2, rho_ions >>
Charge(re_1, re_2, Nions, N1, N2, LL, wp) ==
    LET Q_1 == FDiv(FMul(FMul(wp, wp), LL), FMul(Num(N1), re_1))
        Q_2 == IF re_2 > 0 THEN FMul(-Q_1, FDiv(Num(N1), Num(N2)))
               ELSE IF re_2 < 0 THEN FMul(Q_1, FDiv(Num(N1), Num(N2)))
               ELSE 0
    IN  << Q_1, Q_2, FMul(FDiv(-Q_1, LL), Num(Nions)) >>

\* poisson_equation_preparation(): the (Ng-1) x (Ng-1) matrix with -2 on the
\* diagonal and 1 beside it, kept as its three diagonals
PoissonEquationPreparation(Ng) ==
    [ n   |-> Ng - 1,
      sub |-> [i \in 1..(Ng - 1) |-> Num(1)],
      dia |-> [i \in 1..(Ng - 1) |-> Num(-2)],
      sup |-> [i \in 1..(Ng - 1) |-> Num(1)] ]

\* spsolve(A, b) for a tridiagonal A: LU elimination and back substitution,
\* every operation rounded.  Fwd(i) is << c'_i, d'_i >> of the elimination.
RECURSIVE Fwd(_, _, _)
Fwd(A, b, i) ==
    IF i = 1 THEN << FDiv(A.sup[1], A.dia[1]), FDiv(b[1], A.dia[1]) >>
    ELSE LET p   == Fwd(A, b, i - 1)
             piv == FAdd(A.dia[i], -FMul(A.sub[i], p[1]))
         IN  << FDiv(A.sup[i], piv), FDiv(FAdd(b[i], -FMul(A.sub[i], p[2])), piv) >>

RECURSIVE Back(_, _, _)
Back(A, b, i) ==
    IF i = A.n THEN Fwd(A, b, i)[2]
    ELSE FAdd(Fwd(A, b, i)[2], -FMul(Fwd(A, b, i)[1], Back(A, b, i + 1)))

SpSolve(A, b) == [i \in 1..A.n |-> Back(A, b, i)]

\* (a variant of SolveFieldCpu that returns the Ng - 1 solved potentials
\* without the appended reference node)
SolveFieldCpuNoPin(charge_density_cpu, Ng, dx, A) ==
    LET b    == [i \in 1..(Ng - 1) |-> FMul(-charge_density_cpu[i - 1], FMul(dx, dx))]
        sol  == SpSolve(A, b)
    IN  << [i \in 0..(Ng - 2) |-> sol[i + 1]], [i \in 0..(Ng - 1) |-> 0] >>

\* solve_field_cpu(): << Phi, Eg >>, both indexed 0..Ng-1
SolveFieldCpu(charge_density_cpu, Ng, dx, A) ==
    LET b    == [i \in 1..(Ng - 1) |-> FMul(-charge_density_cpu[i - 1], FMul(dx, dx))]
        sol  == SpSolve(A, b)
        Phi  == [i \in 0..(Ng - 1) |-> IF i < Ng - 1 THEN sol[i + 1] ELSE 0]
        E    == [i \in 0..(Ng - 1) |->
                   FDiv(FAdd(Phi[(i + Ng - 1) % Ng], -Phi[(i + 1) % Ng]),
                        FMul(Num(2), dx))]
    IN  << Phi, E >>

-----------------------------------------------------------------------------
(* Values shared by the specifications *)

\* dx = L / Ng, pic_simulation.py line 132
Dx(Ng) == FDiv(L, Num(Ng))

\* re_1 = re_2 = -1.0, pic_simulation.py lines 143, 147, 151
re_1 == Num(-1)

re_2 == Num(-1)

\* (a variant of ZeroGrid that hands back the buffer of the step before
\* without clearing it)
StaleGrid(Ng) == IF rho_grid = << >> THEN [i \in 0..(Ng - 1) |-> 0] ELSE rho_grid

\* cp.zeros(Ng), pic_simulation.py line 176
ZeroGrid(Ng) == [i \in 0..(Ng - 1) |-> 0]

\* no call of the sampler is being followed
SamplerIdle ==
    /\ samp_N = 0
    /\ samp_v0 = 0
    /\ accepted_speeds = 0

\* no client has connected
ChatIdle ==
    /\ connection_sessions = {}
    /\ active_sessions = << >>
    /\ session_objs = << >>
    /\ tasks = << >>
    /\ disconnected = {}

\* the value of every variable that a thread-level run of one kernel does
\* not use
HostIdle ==
    /\ SamplerIdle
    /\ ChatIdle
    /\ simulation_type = "two_stream"
    /\ steps = 0
    /\ it = 0
    /\ rho_cpu = << >>
    /\ Phi_cpu = << >>
    /\ Eg_cpu = << >>
    /\ Ax = PoissonEquationPreparation(grid_size)
    /\ nfact = 0
    /\ stream = << >>
    /\ frames = << >>
    /\ result = "none"
    /\ stop_flag = FALSE
    /\ stage = [t |-> -1, s |-> "none"]

hostVars == << simulation_type, steps, grid_size, fma, it, rho_cpu, Phi_cpu,
               Eg_cpu, chg, Ax, nfact, stream, frames, result, stop_flag,
               stage, samplerVars, chatVars >>

-----------------------------------------------------------------------------
(* SpecPush: one launch of push_particles_kernel on species 1, followed     *)
(* thread by thread.  The positions, velocities and field are drawn from    *)
(* bounded sets of values the arrays can hold when the kernel is launched.  *)

\* grid sizes of the thread-level runs
KernelGrids == {4}

\* positions: 0.0, 0.3, 33.33, L - 0.1 and L + 0.1 (the loader's last particle)
XInputs == {0, 36, 4000, L - 12, L + 12}

\* velocities: -15.0, -(3.0 + 1/12), -1/12 and 5.0
VInputs == {-1800, -370, -10, 600}

\* fields: zero everywhere, or +1.0 and -1.0 on alternate cells
EInputs(Ng) ==
    { ZeroGrid(Ng), [i \in 0..(Ng - 1) |-> IF i % 2 = 0 THEN Num(1) ELSE Num(-1)] }

InitPush ==
    /\ grid_size \in KernelGrids
    /\ fma \in BOOLEAN
    /\ pc = "push_kernel"
    /\ xp1 \in [1..KernelN -> XInputs]
    /\ vp1 \in [1..KernelN -> VInputs]
    /\ xp2 = << >>
    /\ vp2 = << >>
    /\ Eg \in EInputs(grid_size)
    /\ rho_grid = ZeroGrid(grid_size)
    /\ chg = Charge(re_1, re_2, N_ions, 10, 10, L, wp_e)
    /\ tdone = {}
    /\ HostIdle

\* thread idx of push_particles_kernel runs (pic.py lines 116-127)
PushStep(idx) ==
    /\ pc = "push_kernel"
    /\ << 1, idx >> \notin tdone
    /\ LET r == PushThread(xp1, vp1, idx, Eg, re_1, dt, Dx(grid_size), grid_size, L, fma)
       IN  /\ xp1' = [xp1 EXCEPT ![idx] = r[1]]
           /\ vp1' = [vp1 EXCEPT ![idx] = r[2]]
    /\ tdone' = tdone \cup {<< 1, idx >>}
    /\ UNCHANGED << pc, xp2, vp2, rho_grid, Eg >>
    /\ UNCHANGED hostVars

NextPush == \E idx \in 1..KernelN : PushStep(idx)

SpecPush == InitPush /\ [][NextPush]_vars

\* C1: after the push of a particle its position x satisfies 0 <= x < L,
\* whatever the position and the velocity were before the push.
C1_PushedPositionInDomain ==
    pc = "push_kernel" =>
        \A i \in 1..KernelN : << 1, i >> \in tdone => 0 <= xp1[i] /\ xp1[i] < L

\* C17: the thread of particle idx reads E at the cell of the position before
\* the update, sets v' = v + re*E[i]*dt, then x' = x + v'*dt wrapped by L (the
\* new velocity moves the particle), and changes nothing but xp[idx] and
\* vp[idx]: E, rho and the other particles stay as they are.
C17_PushSemantics ==
    [][ \A idx \in 1..KernelN :
          (<< 1, idx >> \in tdone' /\ << 1, idx >> \notin tdone) =>
            LET i    == CRound(FDiv(xp1[idx], Dx(grid_size))) % grid_size
                kick == FMul(re_1, Eg[i])
                v    == IF fma THEN Rnd(kick * dt + vp1[idx] * Unit, Unit)
                        ELSE FAdd(FMul(kick, dt), vp1[idx])
                s    == IF fma THEN Rnd(v * dt + xp1[idx] * Unit, Unit)
                        ELSE FAdd(FMul(v, dt), xp1[idx])
                w    == Fmod(s, L)
            IN  /\ vp1'[idx] = v
                /\ xp1'[idx] = IF w < 0 THEN FAdd(w, L) ELSE w
                /\ \A j \in 1..KernelN : j # idx => xp1'[j] = xp1[j] /\ vp1'[j] = vp1[j]
                /\ Eg' = Eg /\ rho_grid' = rho_grid /\ xp2' = xp2 /\ vp2' = vp2 ]_vars

\* the thread of particle 1 has run in a nonzero field, which changed its
\* velocity, and particle 2 is still as it was
C17_Witness ==
    /\ pc = "push_kernel"
    /\ tdone = {<< 1, 1 >>}
    /\ Eg[0] # 0
    /\ vp1[1] \notin VInputs
    /\ vp1[2] \in VInputs

-----------------------------------------------------------------------------
(* SpecDeposit: the two launches of deposit_charge_kernel of one step on a  *)
(* zeroed rho_grid (pic_simulation.py lines 176-180), followed thread by    *)
(* thread.  Both launches go to the same CUDA stream, so the threads of the *)
(* second launch start when the first launch has finished; the threads of   *)
(* one launch run in any order.                                             *)

\* particle counts (in thousands) of the type, pic_simulation.py lines 140-151
N1Of(type) ==
    IF type = "two_stream" THEN 10 ELSE IF type = "single_beam" THEN 15 ELSE 12

N2Of(type) ==
    IF type = "two_stream" THEN 10 ELSE IF type = "single_beam" THEN 5 ELSE 8

SimulationTypes == {"two_stream", "single_beam", "landau_damping"}

\* positions: -8.33, 0.3, 8.0 (half way between cells 0 and 1 of 4), 33.33,
\* L + 0.1
DInputs == {-1000, 36, 960, 4000, L + 12}

AllThreads(k) == {k} \X (1..KernelN)

InitDeposit ==
    /\ grid_size \in KernelGrids
    /\ fma = FALSE
    /\ pc = "deposit_kernels"
    /\ xp1 \in [1..KernelN -> DInputs]
    /\ xp2 \in [1..KernelN -> DInputs]
    /\ vp1 = [i \in 1..KernelN |-> 0]
    /\ vp2 = [i \in 1..KernelN |-> 0]
    /\ Eg = ZeroGrid(grid_size)
    /\ rho_grid = ZeroGrid(grid_size)
    /\ \E type \in SimulationTypes :
           chg = Charge(re_1, re_2, N_ions, N1Of(type), N2Of(type), L, wp_e)
    /\ tdone = {}
    /\ HostIdle

\* thread idx of the first launch runs (species 1, charge Q1)
DepositStep1(idx) ==
    /\ pc = "deposit_kernels"
    /\ << 1, idx >> \notin tdone
    /\ rho_grid' = DepositThread(xp1, idx, chg[1], Dx(grid_size), grid_size, rho_grid)
    /\ tdone' = tdone \cup {<< 1, idx >>}
    /\ UNCHANGED << pc, xp1, vp1, xp2, vp2, Eg >>
    /\ UNCHANGED hostVars

\* thread idx of the second launch runs (species 2, charge Q2)
DepositStep2(idx) ==
    /\ pc = "deposit_kernels"
    /\ AllThreads(1) \subseteq tdone
    /\ << 2, idx >> \notin tdone
    /\ rho_grid' = DepositThread(xp2, idx, chg[2], Dx(grid_size), grid_size, rho_grid)
    /\ tdone' = tdone \cup {<< 2, idx >>}
    /\ UNCHANGED << pc, xp1, vp1, xp2, vp2, Eg >>
    /\ UNCHANGED hostVars

NextDeposit ==
    \/ \E idx \in 1..KernelN : DepositStep1(idx)
    \/ \E idx \in 1..KernelN : DepositStep2(idx)

SpecDeposit == InitDeposit /\ [][NextDeposit]_vars

RECURSIVE SumGrid(_, _)
\* g[0] + ... + g[n-1], exactly
SumGrid(g, n) == IF n = 0 THEN 0 ELSE g[n - 1] + SumGrid(g, n - 1)

\* the threads of species k in `done` whose particle lies in cell i
InCell(done, k, xs, i) ==
    { t \in done : t[1] = k /\ GridIdx(xs[t[2]], Dx(grid_size), grid_size) = i }

\* C2: when the N particles of one species, of charge Q each, have been
\* deposited on the zeroed grid, the sum of rho[i]*dx over the cells is N*Q.
C2_DepositedChargeIsNQ ==
    (pc = "deposit_kernels" /\ tdone = AllThreads(1)) =>
        SumGrid(rho_grid, grid_size) * Dx(grid_size) = KernelN * chg[1] * Unit

C2_Witness ==
    /\ pc = "deposit_kernels"
    /\ tdone = AllThreads(1)
    /\ xp1[1] = L + 12
    /\ xp1[2] = 960
    /\ rho_grid[0] # 0
    /\ rho_grid[1] # 0

\* C3: whatever the order in which the deposit threads run, rho[i] is the sum
\* over the species of (particles of the species in cell i) * Q/dx: no update
\* is lost and the order of the threads does not show in rho.
C3_NoLostDeposit ==
    pc = "deposit_kernels" =>
        \A i \in 0..(grid_size - 1) :
            rho_grid[i] * Dx(grid_size) =
                ( Cardinality(InCell(tdone, 1, xp1, i)) * chg[1]
                  + Cardinality(InCell(tdone, 2, xp2, i)) * chg[2] ) * Unit

\* two threads of each species have added to the same cell
C3_Witness ==
    /\ pc = "deposit_kernels"
    /\ tdone = AllThreads(1) \cup AllThreads(2)
    /\ \E i \in 0..(grid_size - 1) :
           /\ Cardinality(InCell(tdone, 1, xp1, i)) >= 2
           /\ Cardinality(InCell(tdone, 2, xp2, i)) >= 2


-----------------------------------------------------------------------------
(* initial_loading, pic.py lines 44-50 *)

\* np.linspace(0, LL, N): N evenly spaced samples, the last one LL itself
Linspace(LL, N) ==
    [i \in 1..N |-> IF i = N /\ N > 1 THEN LL
                    ELSE IF N = 1 THEN 0
                    ELSE FMul(Num(i - 1), FDiv(LL, Num(N - 1)))]

\* amp * cos(2*pi*p/LL) for 0 <= p <= LL/4, by the rational approximation
\* (1 - 16 t^2) / (1 + 4 t^2) of cos(2*pi*t), which is within 0.002 of it
AmpCosQuarter(amp, p, LL) == Rnd(amp * (LL * LL - 16 * p * p), LL * LL + 4 * p * p)

\* amp * cos(2*pi*m*x/LL), the angle reduced to the first quarter period
AmpCos2Pi(amp, m, x, LL) ==
    LET p == (m * Abs(x)) % LL
        q == IF 2 * p > LL THEN LL - p ELSE p
    IN  IF 4 * q <= LL THEN AmpCosQuarter(amp, q, LL)
        ELSE -AmpCosQuarter(amp, LL \div 2 - q, LL)

\* the positions initial_loading returns (line 46 and lines 48-49)
InitialPositions(N, amp, m, LL) ==
    LET position == Linspace(LL, N)
    IN  IF amp # 0
        THEN [i \in 1..N |-> FAdd(position[i], AmpCos2Pi(amp, m, position[i], LL))]
        ELSE position

\* sampler outcomes considered per species
NSamplings == 2

\* acceptance_rejection_cupy returns N random velocities in [v_min, v_max];
\* outcome k of the sampler: the particles get v_0 - v_th, v_0, v_0 + v_th in turn
SampledVelocities(k, N, v_0) == [i \in 1..N |-> v_0 + (((i + k) % 3) - 1) * v_th]

\* v0_1 and v0_2 of the type, pic_simulation.py lines 142, 146, 150
V01Of(type) == IF type = "landau_damping" THEN 0 ELSE beam_v1

V02Of(type) == IF type = "two_stream" THEN beam_v2 ELSE 0


-----------------------------------------------------------------------------
(* Spec: PICSimulation.call and _run_simulation, pic_simulation.py lines    *)
(* 75-236.  The host runs the statements in program order.  Kernel          *)
(* launches, cp.zeros and the in-place add are queued on the CUDA stream    *)
(* and return at once; the device runs the queued work in order, one        *)
(* operation after the other; cp.asnumpy waits until the stream is empty.   *)

\* short runs: every number of steps from -1 to MaxSteps
MaxSteps == 3

\* long runs: LongSteps - 2 .. LongSteps steps
LongSteps == 101

\* values of grid_size; 1 is left out: what scipy does with the empty
\* 0 x 0 system is not decided by the source
GridSizes == {-1, 0, 2, 4}

NoGrid == << >>

Init ==
    /\ \/ /\ simulation_type \in SimulationTypes
          /\ grid_size \in GridSizes
          /\ steps \in (-1)..MaxSteps
          /\ fma \in BOOLEAN
       \/ /\ simulation_type = "two_stream"
          /\ grid_size = 2
          /\ steps \in (LongSteps - 2)..LongSteps
          /\ fma = TRUE
    /\ pc = "call"
    /\ it = 0
    /\ xp1 = << >> /\ vp1 = << >> /\ xp2 = << >> /\ vp2 = << >>
    /\ rho_grid = NoGrid /\ Eg = NoGrid
    /\ rho_cpu = NoGrid /\ Phi_cpu = NoGrid /\ Eg_cpu = NoGrid
    /\ chg = << >>
    /\ Ax = << >>
    /\ nfact = 0
    /\ stream = << >>
    /\ frames = << >>
    /\ result = "none"
    /\ stop_flag = FALSE
    /\ stage = [t |-> -1, s |-> "none"]
    /\ tdone = {}
    /\ SamplerIdle
    /\ ChatIdle

Ng == grid_size

N1 == N1Of(simulation_type)

N2 == N2Of(simulation_type)

\* line 167: save_interval = max(1, steps // 50)
SaveInterval(n) == IF n \div 50 > 1 THEN n \div 50 ELSE 1

\* (a variant of SaveCondition that forgets the final iteration)
SaveConditionNoFinal(i, n) == i % SaveInterval(n) = 0

\* line 195: it % save_interval == 0 or it == steps - 1
SaveCondition(i, n) == i % SaveInterval(n) = 0 \/ i = n - 1

\* (a variant of FrameData whose charge density is deposited again from the
\* positions the frame stores)
FrameDataRedeposited(i) ==
    LET d1 == DepositKernel(xp1, N1, chg[1], Dx(Ng), Ng, [c \in 0..(Ng - 1) |-> 0])
        d2 == DepositKernel(xp2, N2, chg[2], Dx(Ng), Ng, d1)
    IN  [ iteration |-> i,
          time |-> FMul(Num(i), dt),
          beam1_positions |-> xp1, beam1_velocities |-> vp1,
          beam2_positions |-> xp2, beam2_velocities |-> vp2,
          electric_field |-> Eg_cpu, potential |-> Phi_cpu,
          charge_density |-> [c \in 0..(Ng - 1) |-> FAdd(d2[c], chg[3])],
          L |-> L, Ng |-> Ng, dx |-> Dx(Ng) ]

\* lines 196-224: frame_data
FrameData(i) ==
    [ iteration |-> i,
      time |-> FMul(Num(i), dt),
      beam1_positions |-> xp1, beam1_velocities |-> vp1,
      beam2_positions |-> xp2, beam2_velocities |-> vp2,
      electric_field |-> Eg_cpu, potential |-> Phi_cpu, charge_density |-> rho_cpu,
      L |-> L, Ng |-> Ng, dx |-> Dx(Ng) ]

\* (a variant of FramesAfter that tests the two conditions one after the
\* other and appends for each)
FramesAfterTwoTests(fr, i, n, data) ==
    LET a == IF i % SaveInterval(n) = 0 THEN Append(fr, data) ELSE fr
    IN  IF i = n - 1 THEN Append(a, data) ELSE a

\* (a variant of FramesAfter whose frames share the arrays of the loop
\* instead of holding copies: every frame shows the latest values)
FramesAfterSharingArrays(fr, i, n, data) ==
    IF SaveCondition(i, n)
    THEN Append([j \in 1..Len(fr) |->
                    [fr[j] EXCEPT !.beam1_positions = data.beam1_positions,
                                  !.beam1_velocities = data.beam1_velocities,
                                  !.beam2_positions = data.beam2_positions,
                                  !.beam2_velocities = data.beam2_velocities,
                                  !.electric_field = data.electric_field,
                                  !.potential = data.potential,
                                  !.charge_density = data.charge_density]], data)
    ELSE fr

\* lines 195-225: the list frames after iteration i
FramesAfter(fr, i, n, data) == IF SaveCondition(i, n) THEN Append(fr, data) ELSE fr

\* (a variant of Synchronized that does not wait for the last queued kernel)
AlmostSynchronized(q) == Len(q) <= 1

\* cp.asnumpy returns when all work queued on the stream before it has run
Synchronized(q) == q = << >>

\* spsolve factorizes the matrix it is given on every call
FactorizationsAfterSolve(n) == n + 1

Launch(op) == stream' = Append(stream, [op |-> op, t |-> it])

\* lines 129-159: the constants, and the particles of both species.
\* L / Ng raises ZeroDivisionError when grid_size is 0 (line 132).
InitParticles ==
    /\ pc = "call"
    /\ IF Ng = 0
       THEN /\ result' = "error"
            /\ pc' = "done"
            /\ UNCHANGED << xp1, vp1, xp2, vp2 >>
       ELSE /\ \E k \in 1..NSamplings :
                   /\ vp1' = SampledVelocities(k, N1, V01Of(simulation_type))
                   /\ vp2' = SampledVelocities(k + 1, N2, V02Of(simulation_type))
            /\ xp1' = InitialPositions(N1, amplitude, mode, L)
            /\ xp2' = InitialPositions(N2, amplitude, mode, L)
            /\ pc' = "setup"
            /\ UNCHANGED result
    /\ UNCHANGED << simulation_type, steps, grid_size, fma, it, rho_grid, Eg, rho_cpu,
                    Phi_cpu, Eg_cpu, chg, Ax, nfact, stream, frames, stop_flag,
                    stage, tdone >>
    /\ UNCHANGED << samplerVars, chatVars >>

\* lines 162-171: charge(), poisson_equation_preparation(), frames = [].
\* np.ones(Ng - 1) raises ValueError when Ng - 1 is negative (pic.py line 143).
SetupSolver ==
    /\ pc = "setup"
    /\ chg' = Charge(re_1, re_2, N_ions, N1, N2, L, wp_e)
    /\ IF Ng - 1 < 0
       THEN /\ result' = "error"
            /\ pc' = "done"
            /\ UNCHANGED << Ax, frames >>
       ELSE /\ Ax' = PoissonEquationPreparation(Ng)
            /\ frames' = << >>
            /\ pc' = "loop"
            /\ UNCHANGED result
    /\ UNCHANGED << simulation_type, steps, grid_size, fma, it, xp1, vp1, xp2, vp2,
                    rho_grid, Eg, rho_cpu, Phi_cpu, Eg_cpu, nfact, stream,
                    stop_flag, stage, tdone >>
    /\ UNCHANGED << samplerVars, chatVars >>

hostOnly == << simulation_type, steps, grid_size, fma, xp1, vp1, xp2, vp2, rho_grid,
               chg, Ax, stop_flag, stage, tdone, samplerVars, chatVars >>

\* line 174, and line 176 when the loop goes on: rho_grid = cp.zeros(Ng)
LoopHead ==
    /\ pc = "loop"
    /\ IF it < steps
       THEN Launch("zeros") /\ pc' = "launch_dep1"
       ELSE pc' = "return" /\ UNCHANGED stream
    /\ UNCHANGED << it, Eg, rho_cpu, Phi_cpu, Eg_cpu, nfact, frames, result >>
    /\ UNCHANGED hostOnly

\* lines 177-178
LaunchDeposit1 ==
    /\ pc = "launch_dep1"
    /\ Launch("dep1")
    /\ pc' = "launch_dep2"
    /\ UNCHANGED << it, Eg, rho_cpu, Phi_cpu, Eg_cpu, nfact, frames, result >>
    /\ UNCHANGED hostOnly

\* lines 179-180
LaunchDeposit2 ==
    /\ pc = "launch_dep2"
    /\ Launch("dep2")
    /\ pc' = "add_ions"
    /\ UNCHANGED << it, Eg, rho_cpu, Phi_cpu, Eg_cpu, nfact, frames, result >>
    /\ UNCHANGED hostOnly

\* line 181: rho_grid += rho_ions
AddIons ==
    /\ pc = "add_ions"
    /\ Launch("ions")
    /\ pc' = "copy_rho"
    /\ UNCHANGED << it, Eg, rho_cpu, Phi_cpu, Eg_cpu, nfact, frames, result >>
    /\ UNCHANGED hostOnly

\* line 184: rho_cpu = cp.asnumpy(rho_grid)
CopyRho ==
    /\ pc = "copy_rho"
    /\ Synchronized(stream)
    /\ rho_cpu' = rho_grid
    /\ pc' = "solve"
    /\ UNCHANGED << it, Eg, Phi_cpu, Eg_cpu, nfact, stream, frames, result >>
    /\ UNCHANGED hostOnly

\* line 185: Phi_cpu, Eg_cpu = solve_field_cpu(rho_cpu, Ng, dx, Ax)
Solve ==
    /\ pc = "solve"
    /\ LET r == SolveFieldCpu(rho_cpu, Ng, Dx(Ng), Ax)
       IN  Phi_cpu' = r[1] /\ Eg_cpu' = r[2]
    /\ nfact' = FactorizationsAfterSolve(nfact)
    /\ stage' = [t |-> it, s |-> "solve"]
    /\ pc' = "copy_E"
    /\ UNCHANGED << simulation_type, steps, grid_size, fma, it, xp1, vp1, xp2, vp2,
                    rho_grid, Eg, rho_cpu, chg, Ax, stream, frames, result,
                    stop_flag, tdone >>
    /\ UNCHANGED << samplerVars, chatVars >>

\* line 186: Eg = cp.asarray(Eg_cpu)
CopyE ==
    /\ pc = "copy_E"
    /\ Eg' = Eg_cpu
    /\ pc' = "launch_push1"
    /\ UNCHANGED << it, rho_cpu, Phi_cpu, Eg_cpu, nfact, stream, frames, result >>
    /\ UNCHANGED hostOnly

\* lines 189-190
LaunchPush1 ==
    /\ pc = "launch_push1"
    /\ Launch("push1")
    /\ pc' = "launch_push2"
    /\ UNCHANGED << it, Eg, rho_cpu, Phi_cpu, Eg_cpu, nfact, frames, result >>
    /\ UNCHANGED hostOnly

\* lines 191-192
LaunchPush2 ==
    /\ pc = "launch_push2"
    /\ Launch("push2")
    /\ pc' = "frame"
    /\ UNCHANGED << it, Eg, rho_cpu, Phi_cpu, Eg_cpu, nfact, frames, result >>
    /\ UNCHANGED hostOnly

\* lines 195-225: the frame of this iteration, if one is due; the four
\* cp.asnumpy of lines 196-199 wait for the stream
SaveFrame ==
    /\ pc = "frame"
    /\ IF SaveCondition(it, steps)
       THEN /\ Synchronized(stream)
            /\ stage' = [t |-> it, s |-> "frame"]
       ELSE UNCHANGED stage
    /\ frames' = FramesAfter(frames, it, steps, FrameData(it))
    /\ it' = it + 1
    /\ pc' = "loop"
    /\ UNCHANGED << simulation_type, steps, grid_size, fma, xp1, vp1, xp2, vp2,
                    rho_grid, Eg, rho_cpu, Phi_cpu, Eg_cpu, chg, Ax, nfact, stream,
                    result, stop_flag, tdone >>
    /\ UNCHANGED << samplerVars, chatVars >>

\* lines 227-236 and 99-115: _run_simulation returns and call() reports success
Return ==
    /\ pc = "return"
    /\ result' = "success"
    /\ pc' = "done"
    /\ UNCHANGED << it, Eg, rho_cpu, Phi_cpu, Eg_cpu, nfact, stream, frames >>
    /\ UNCHANGED hostOnly

\* the device runs the oldest operation queued on the stream
Exec ==
    /\ stream # << >>
    /\ LET o  == Head(stream)
           dx == Dx(Ng)
           p1 == PushKernel(xp1, vp1, N1, Eg, re_1, dt, dx, Ng, L, fma)
           p2 == PushKernel(xp2, vp2, N2, Eg, re_2, dt, dx, Ng, L, fma)
       IN  /\ rho_grid' =
                 IF o.op = "zeros" THEN ZeroGrid(Ng)
                 ELSE IF o.op = "dep1" THEN DepositKernel(xp1, N1, chg[1], dx, Ng, rho_grid)
                 ELSE IF o.op = "dep2" THEN DepositKernel(xp2, N2, chg[2], dx, Ng, rho_grid)
                 ELSE IF o.op = "ions" THEN [i \in 0..(Ng - 1) |-> FAdd(rho_grid[i], chg[3])]
                 ELSE rho_grid
           /\ xp1' = IF o.op = "push1" THEN p1[1] ELSE xp1
           /\ vp1' = IF o.op = "push1" THEN p1[2] ELSE vp1
           /\ xp2' = IF o.op = "push2" THEN p2[1] ELSE xp2
           /\ vp2' = IF o.op = "push2" THEN p2[2] ELSE vp2
           /\ stage' = [t |-> o.t, s |-> o.op]
    /\ stream' = Tail(stream)
    /\ UNCHANGED << simulation_type, steps, grid_size, fma, pc, it, Eg, rho_cpu,
                    Phi_cpu, Eg_cpu, chg, Ax, nfact, frames, result, stop_flag,
                    tdone >>
    /\ UNCHANGED << samplerVars, chatVars >>

\* llm_service.stop_generation (lines 83-98), called from the event loop
\* while the tool runs in the executor thread (lines 159-168)
StopGeneration ==
    /\ pc # "done"
    /\ ~stop_flag
    /\ stop_flag' = TRUE
    /\ UNCHANGED << simulation_type, steps, grid_size, fma, pc, it, xp1, vp1, xp2,
                    vp2, rho_grid, Eg, rho_cpu, Phi_cpu, Eg_cpu, chg, Ax, nfact,
                    stream, frames, result, stage, tdone >>
    /\ UNCHANGED << samplerVars, chatVars >>

Next ==
    \/ InitParticles
    \/ SetupSolver
    \/ LoopHead
    \/ LaunchDeposit1
    \/ LaunchDeposit2
    \/ AddIons
    \/ CopyRho
    \/ Solve
    \/ CopyE
    \/ LaunchPush1
    \/ LaunchPush2
    \/ SaveFrame
    \/ Return
    \/ Exec
    \/ StopGeneration

Spec == Init /\ [][Next]_vars


-----------------------------------------------------------------------------
(* Properties of the run *)

\* the order of the stages of the loop body: b may be the next stage after a
StageFollows(a, b) ==
    \/ a.s = "none"  /\ b = [t |-> 0, s |-> "zeros"]
    \/ a.s = "zeros" /\ b = [t |-> a.t, s |-> "dep1"]
    \/ a.s = "dep1"  /\ b = [t |-> a.t, s |-> "dep2"]
    \/ a.s = "dep2"  /\ b = [t |-> a.t, s |-> "ions"]
    \/ a.s = "ions"  /\ b = [t |-> a.t, s |-> "solve"]
    \/ a.s = "solve" /\ b = [t |-> a.t, s |-> "push1"]
    \/ a.s = "push1" /\ b = [t |-> a.t, s |-> "push2"]
    \/ a.s = "push2" /\ b = [t |-> a.t, s |-> "frame"]
    \/ a.s \in {"push2", "frame"} /\ b = [t |-> a.t + 1, s |-> "zeros"]

\* C4: in every step the stages take effect in the order zero rho, deposit
\* species 1, deposit species 2, add the ion background, solve, push species
\* 1, push species 2, optional frame; the next step's first stage comes only
\* after the last push (or the frame) of this step.
C4_StageOrder == [][stage' # stage => StageFollows(stage, stage')]_vars

\* the host has already queued work of step 2 while the device has just
\* pushed species 1 of step 1
C4_Witness ==
    /\ stage = [t |-> 1, s |-> "push1"]
    /\ it = 2
    /\ pc = "launch_dep2"

FrameIterations == { frames[j].iteration : j \in 1..Len(frames) }

C7_StopEndsLoop == [][(stop_flag /\ pc = "loop") => pc' # "launch_dep1"]_vars

\* C8: a configuration with steps <= 0 or grid_size <= 0 is rejected before
\* any work: no particle is initialised, no stage of a step takes effect and
\* the call does not return success.
C8_InvalidConfigRejected ==
    (pc \notin {"push_kernel", "deposit_kernels"} /\ (steps <= 0 \/ grid_size <= 0)) =>
        /\ xp1 = << >> /\ xp2 = << >>
        /\ stage.s = "none"
        /\ result # "success"

\* C9: once both species are deposited and the ion background is added, the
\* total charge on the grid is zero, for every simulation type.
C9_GridNeutral ==
    stage.s = "ions" => SumGrid(rho_grid, Ng) * Dx(Ng) = 0

\* C10: the operator is factorized exactly once in a run: never more than
\* once, and once when a run of at least one step has completed.
C10_FactorizedOnce ==
    /\ nfact <= 1
    /\ (result = "success" /\ steps >= 1) => nfact = 1


\* C11: the positions initial_loading lays out before it applies the
\* perturbation (line 46) lie in the half-open interval [0, L), for both
\* species: in the state the loader leaves, no unperturbed position is L.
C11_UnperturbedPositionsHalfOpen ==
    pc = "setup" =>
        /\ \A i \in 1..N1 : 0 <= Linspace(L, N1)[i] /\ Linspace(L, N1)[i] < L
        /\ \A i \in 1..N2 : 0 <= Linspace(L, N2)[i] /\ Linspace(L, N2)[i] < L


\* a field that holds a different value in every cell
ProbeField(n) == [j \in 0..(n - 1) |-> Num(j + 1)]

\* C12: for every particle position, negative ones and ones beyond L
\* included, the deposit kernel and the push kernel use the same cell
\* i = round(x/dx) mod Ng with 0 <= i < Ng: the deposit adds to rho[i] and to
\* no other cell, and the push reads E[i].
C12_SameIndexInRange ==
    pc = "deposit_kernels" =>
        \A k \in {1, 2}, idx \in 1..KernelN :
            LET xs == IF k = 1 THEN xp1 ELSE xp2
                dx == Dx(grid_size)
                i  == CRound(FDiv(xs[idx], dx)) % grid_size
            IN  /\ GridIdx(xs[idx], dx, grid_size) \in 0..(grid_size - 1)
                /\ GridIdx(xs[idx], dx, grid_size) = i
                /\ \A j \in 0..(grid_size - 1) :
                       (DepositThread(xs, idx, chg[k], dx, grid_size,
                                      ZeroGrid(grid_size))[j] # 0) <=> (j = i)
                /\ << k, idx >> \in tdone => rho_grid[i] # 0
                /\ PushThread(xs, vp1, idx, ProbeField(grid_size), re_1, dt, dx,
                              grid_size, L, FALSE)[2]
                     = FMul(FMul(re_1, Num(i + 1)), dt)

\* a particle at a negative position and one beyond L have been deposited
C12_Witness ==
    /\ pc = "deposit_kernels"
    /\ AllThreads(1) \subseteq tdone
    /\ xp1[1] < 0
    /\ xp1[2] > L
    /\ rho_grid[grid_size - 1] # 0
    /\ rho_grid[0] # 0


\* the charge density of the particle positions of the current state: both
\* species deposited on an all-zero grid, then the ion background added
DensityOfPositions ==
    LET zero == [i \in 0..(Ng - 1) |-> 0]
        d1   == DepositKernel(xp1, N1, chg[1], Dx(Ng), Ng, zero)
        d2   == DepositKernel(xp2, N2, chg[2], Dx(Ng), Ng, d1)
    IN  [i \in 0..(Ng - 1) |-> FAdd(d2[i], chg[3])]

\* C13: rho is all-zero before the first deposit of every step, and the rho,
\* Phi and E of a step are computed from the positions at the start of that
\* step only: nothing of the step before is carried over.
C13_FieldsRecomputedEachStep ==
    /\ stage.s = "zeros" => \A i \in 0..(Ng - 1) : rho_grid[i] = 0
    /\ stage.s = "ions" => rho_grid = DensityOfPositions
    /\ stage.s = "solve" =>
           /\ rho_cpu = DensityOfPositions
           /\ << Phi_cpu, Eg_cpu >> = SolveFieldCpu(DensityOfPositions, Ng, Dx(Ng), Ax)
    /\ stage.s \in {"push1", "push2"} =>
           /\ Eg = Eg_cpu
           /\ << Phi_cpu, Eg_cpu >> = SolveFieldCpu(rho_cpu, Ng, Dx(Ng), Ax)

\* the second step has solved for a density that differs from the first step's
C13_Witness ==
    /\ stage.s = "solve"
    /\ stage.t >= 1
    /\ Len(frames) >= 1
    /\ rho_cpu # frames[1].charge_density
    /\ Eg_cpu # frames[1].electric_field


\* C14: a frame that is in the list is never changed, removed or moved: every
\* step of the program leaves every frame already in the list as it is, at
\* the same place.
C14_FramesImmutable ==
    [][ /\ Len(frames') >= Len(frames)
        /\ \A j \in 1..Len(frames) : frames'[j] = frames[j] ]_vars

\* three frames in the list, and later steps have produced other positions
\* and another charge density than those the first frame holds
C14_Witness ==
    /\ Len(frames) = 3
    /\ frames[2].beam1_positions # frames[1].beam1_positions
    /\ frames[3].charge_density # frames[1].charge_density


\* C16: after every solve Phi has exactly Ng entries and its last entry,
\* Phi[Ng-1], is exactly 0; rho and E have exactly Ng entries too, on the
\* device, on the host and in every frame.
C16_GridLengths ==
    /\ \A g \in {rho_grid, Eg, rho_cpu, Phi_cpu, Eg_cpu} :
           g # << >> => DOMAIN g = 0..(Ng - 1)
    /\ Phi_cpu # << >> => Phi_cpu[Ng - 1] = 0
    /\ \A j \in 1..Len(frames) :
           /\ DOMAIN frames[j].charge_density = 0..(Ng - 1)
           /\ DOMAIN frames[j].electric_field = 0..(Ng - 1)
           /\ DOMAIN frames[j].potential = 0..(Ng - 1)
           /\ frames[j].potential[Ng - 1] = 0

\* a solve on a grid of 4 cells has produced nonzero interior potentials and
\* a frame holds them
C16_Witness ==
    /\ Ng = 4
    /\ Len(frames) >= 1
    /\ Phi_cpu # << >>
    /\ \A i \in 0..2 : Phi_cpu[i] # 0
    /\ frames[1].potential[0] # 0


\* C18: the list of frames never holds more than 50 frames.
C18_AtMostFiftyFrames == Len(frames) <= 50


\* the charge density of the positions x1 and x2 of the two species
RhoOf(x1, x2) ==
    LET d1 == DepositKernel(x1, N1, chg[1], Dx(Ng), Ng, [c \in 0..(Ng - 1) |-> 0])
        d2 == DepositKernel(x2, N2, chg[2], Dx(Ng), Ng, d1)
    IN  [c \in 0..(Ng - 1) |-> FAdd(d2[c], chg[3])]

\* frame f holds the fields of the positions x1, x2 and the particles
\* x1, v1, x2, v2 after their push in those fields
FrameOfStepFrom(f, x1, v1, x2, v2) ==
    LET rho == RhoOf(x1, x2)
        sol == SolveFieldCpu(rho, Ng, Dx(Ng), Ax)
        p1  == PushKernel(x1, v1, N1, sol[2], re_1, dt, Dx(Ng), Ng, L, fma)
        p2  == PushKernel(x2, v2, N2, sol[2], re_2, dt, Dx(Ng), Ng, L, fma)
    IN  /\ f.charge_density = rho
        /\ f.potential = sol[1]
        /\ f.electric_field = sol[2]
        /\ f.beam1_positions = p1[1] /\ f.beam1_velocities = p1[2]
        /\ f.beam2_positions = p2[1] /\ f.beam2_velocities = p2[2]

\* C19: the frame of iteration it holds the charge density, potential and
\* field computed from the positions at the start of iteration it (the
\* initial load for it = 0, the state left by iteration it - 1 otherwise), and
\* the positions and velocities after the push of iteration it.  Stated of
\* the newest frame of the list, which every frame is when it is appended.
C19_FrameFieldsArePrePush ==
    \A j \in {Len(frames)} \ {0} :
        /\ frames[j].iteration = 0 =>
               \E k \in 1..NSamplings :
                   FrameOfStepFrom(frames[j],
                       InitialPositions(N1, amplitude, mode, L),
                       SampledVelocities(k, N1, V01Of(simulation_type)),
                       InitialPositions(N2, amplitude, mode, L),
                       SampledVelocities(k + 1, N2, V02Of(simulation_type)))
        /\ (j >= 2 /\ frames[j].iteration = frames[j - 1].iteration + 1) =>
               FrameOfStepFrom(frames[j],
                   frames[j - 1].beam1_positions, frames[j - 1].beam1_velocities,
                   frames[j - 1].beam2_positions, frames[j - 1].beam2_velocities)

\* a frame whose charge density is not the density of the positions it stores
C19_Witness ==
    \E j \in 2..Len(frames) :
        /\ frames[j].iteration = frames[j - 1].iteration + 1
        /\ frames[j].charge_density
             # RhoOf(frames[j].beam1_positions, frames[j].beam2_positions)


-----------------------------------------------------------------------------
(* SpecSampler: one call of acceptance_rejection_cupy (pic.py lines 26-42),  *)
(* followed batch by batch.  The random draws of a batch are a               *)
(* nondeterministic choice of how many candidates it accepts.               *)

\* v_min = -15.0 and v_max = 15.0, pic_simulation.py lines 135-136
v_min == Num(-15)

v_max == Num(15)

\* cp.exp(x) is 0.0 in doubles for every x below -745.2
ExpUnderflow == 746

\* largest N of a followed call
MaxSampleN == 3

\* v_0: the beam velocities 0.0, 5.0 and -5.0 of the three types, and the
\* caller-chosen beam_velocity_1 values 40.0 and 100.0
V0Inputs == {Num(0), Num(5), Num(-5), Num(40), Num(100)}

\* the distance from v_0 to the nearest candidate of [v_min, v_max]
DistToCandidates(v0) ==
    IF v0 > v_max THEN v0 - v_max ELSE IF v0 < v_min THEN v_min - v0 ELSE 0

\* line 38: can `u_candidates < f_values` hold for a candidate?  Only if
\* f_values is not 0.0, that is if exp(-(v - v_0)^2 / (2 v_th^2)) does not
\* underflow for the candidate nearest to v_0 (u_candidates is never negative)
CanAccept(v0) ==
    DistToCandidates(v0) * DistToCandidates(v0) < 2 * ExpUnderflow * v_th * v_th

\* line 28: num_candidates = int(N * 3)
NumCandidates(n) == n * 3

InitSampler ==
    /\ pc = "sampler_loop"
    /\ samp_N \in 1..MaxSampleN
    /\ samp_v0 \in V0Inputs
    /\ accepted_speeds = 0
    /\ simulation_type = "two_stream" /\ steps = 0 /\ grid_size = 2 /\ fma = FALSE
    /\ it = 0
    /\ xp1 = << >> /\ vp1 = << >> /\ xp2 = << >> /\ vp2 = << >>
    /\ rho_grid = NoGrid /\ Eg = NoGrid
    /\ rho_cpu = NoGrid /\ Phi_cpu = NoGrid /\ Eg_cpu = NoGrid
    /\ chg = << >> /\ Ax = << >> /\ nfact = 0 /\ stream = << >> /\ frames = << >>
    /\ result = "none" /\ stop_flag = FALSE
    /\ stage = [t |-> -1, s |-> "none"]
    /\ tdone = {}
    /\ ChatIdle

nonSamplerVars == << simulation_type, steps, grid_size, fma, it, xp1, vp1, xp2, vp2,
                     rho_grid, Eg, rho_cpu, Phi_cpu, Eg_cpu, chg, Ax, nfact, stream,
                     frames, result, stop_flag, stage, tdone, chatVars >>

\* line 31: the loop condition holds, the body is entered
SamplerEnterLoop ==
    /\ pc = "sampler_loop"
    /\ accepted_speeds < samp_N
    /\ pc' = "sampler_batch"
    /\ UNCHANGED << samp_N, samp_v0, accepted_speeds >>
    /\ UNCHANGED nonSamplerVars

\* lines 32-40: the body of the while loop; k candidates are accepted
SampleBatch ==
    /\ pc = "sampler_batch"
    /\ \E k \in 0..NumCandidates(samp_N) :
           /\ k > 0 => CanAccept(samp_v0)
           /\ accepted_speeds' = accepted_speeds + k
    /\ pc' = "sampler_loop"
    /\ UNCHANGED << samp_N, samp_v0 >>
    /\ UNCHANGED nonSamplerVars

\* a batch that accepts at least one candidate
AcceptingBatch == SampleBatch /\ accepted_speeds' > accepted_speeds

\* line 42: the loop condition is false, the first N samples are returned
SamplerReturn ==
    /\ pc = "sampler_loop"
    /\ accepted_speeds >= samp_N
    /\ pc' = "sampler_done"
    /\ UNCHANGED << samp_N, samp_v0, accepted_speeds >>
    /\ UNCHANGED nonSamplerVars

NextSampler == SamplerEnterLoop \/ SampleBatch \/ SamplerReturn

\* the loop keeps running, and where a candidate can be accepted the random
\* draws do not reject every candidate for ever
SpecSampler ==
    /\ InitSampler
    /\ [][NextSampler]_vars
    /\ WF_vars(NextSampler)
    /\ SF_vars(AcceptingBatch)

\* C15: every call of the sampler eventually ends: it returns N samples or
\* fails after a bounded number of batches.
C15_SamplerEnds == <>(pc = "sampler_done")


-----------------------------------------------------------------------------
(* SpecChat: the Socket.IO handlers of chat.py and the sessions of           *)
(* LLMService (llm_service.py).  The handlers are coroutines on one event    *)
(* loop: a handler runs without interruption from one await to the next,     *)
(* and the handlers of other events run in between.  A session dict is       *)
(* an object: generate_response_stream keeps a reference to the dict it    *)
(* found at its start, whatever active_sessions holds later.                 *)
(* The session id of a sid is f"session_{sid}"; the model names it by sid.   *)

\* the clients
Sids == {"a", "b"}

\* message handlers started in a run
MaxTasks == 2

\* session dicts created in a run
MaxObjs == 3

\* response chunks bot.run returns for one message
MaxChunks == 2

\* the variables of the simulation, the kernels and the sampler at rest
PicIdle ==
    /\ simulation_type = "two_stream" /\ steps = 0 /\ grid_size = 2 /\ fma = FALSE
    /\ it = 0
    /\ xp1 = << >> /\ vp1 = << >> /\ xp2 = << >> /\ vp2 = << >>
    /\ rho_grid = NoGrid /\ Eg = NoGrid
    /\ rho_cpu = NoGrid /\ Phi_cpu = NoGrid /\ Eg_cpu = NoGrid
    /\ chg = << >> /\ Ax = << >> /\ nfact = 0 /\ stream = << >> /\ frames = << >>
    /\ result = "none" /\ stop_flag = FALSE
    /\ stage = [t |-> -1, s |-> "none"]
    /\ tdone = {}
    /\ SamplerIdle

picVars == << simulation_type, steps, grid_size, fma, pc, it, xp1, vp1, xp2, vp2,
              rho_grid, Eg, rho_cpu, Phi_cpu, Eg_cpu, chg, Ax, nfact, stream,
              frames, result, stop_flag, stage, tdone, samplerVars >>

InitChat ==
    /\ pc = "chat"
    /\ PicIdle
    /\ ChatIdle

\* the mapping act without the key k
Without(act, k) ==
    IF DOMAIN act \ {k} = {} THEN << >>
    ELSE [s \in DOMAIN act \ {k} |-> act[s]]

\* LLMService.create_session (lines 66-81): a new dict replaces whatever the
\* id was bound to.  << session_objs, active_sessions >> after the call.
CreateSession(objs, act, session_id) ==
    << Append(objs, [messages |-> << >>, stop_flag |-> FALSE, is_generating |-> FALSE]),
       (session_id :> (Len(objs) + 1)) @@ act >>

\* LLMService.add_message (lines 112-129): creates the session if it is not
\* there, then appends to the dict active_sessions holds
AddMessage(objs, act, session_id, role) ==
    LET c == IF session_id \in DOMAIN act THEN << objs, act >>
             ELSE CreateSession(objs, act, session_id)
    IN  << [c[1] EXCEPT ![c[2][session_id]].messages = Append(@, role)], c[2] >>

\* LLMService.clear_session (lines 221-235)
ClearSession(act, session_id) == Without(act, session_id)

\* chat.py connect (lines 19-31)
Connect(sid) ==
    /\ sid \notin connection_sessions
    /\ sid \notin disconnected
    /\ Len(session_objs) < MaxObjs
    /\ connection_sessions' = connection_sessions \cup {sid}
    /\ LET c == CreateSession(session_objs, active_sessions, sid)
       IN  session_objs' = c[1] /\ active_sessions' = c[2]
    /\ UNCHANGED << tasks, disconnected >>
    /\ UNCHANGED picVars

\* chat.py disconnect (lines 34-44)
Disconnect(sid) ==
    /\ sid \in connection_sessions
    /\ connection_sessions' = connection_sessions \ {sid}
    /\ active_sessions' = ClearSession(active_sessions, sid)
    /\ disconnected' = disconnected \cup {sid}
    /\ UNCHANGED << session_objs, tasks >>
    /\ UNCHANGED picVars

\* chat.py message, lines 59-71: the session id is looked up, then the
\* handler awaits the emit of generation_started
Message(sid) ==
    /\ sid \in connection_sessions
    /\ Len(tasks) < MaxTasks
    /\ tasks' = Append(tasks, [session_id |-> sid, pc |-> "started", session |-> 0,
                               chunks |-> 0, final_content |-> 0,
                               stop_accepted |-> FALSE])
    /\ UNCHANGED << connection_sessions, active_sessions, session_objs, disconnected >>
    /\ UNCHANGED picVars

\* generate_response_stream, lines 142-168: up to the await of the executor
GenerateStart(t) ==
    /\ tasks[t].pc = "started"
    /\ LET id == tasks[t].session_id
           c  == IF id \in DOMAIN active_sessions
                 THEN << session_objs, active_sessions >>
                 ELSE CreateSession(session_objs, active_sessions, id)
           o  == c[2][id]
           s1 == [c[1] EXCEPT ![o].stop_flag = FALSE, ![o].is_generating = TRUE]
           a  == AddMessage(s1, c[2], id, "user")
       IN  /\ id \notin DOMAIN active_sessions => Len(session_objs) < MaxObjs
           /\ session_objs' = a[1]
           /\ active_sessions' = a[2]
           /\ tasks' = [tasks EXCEPT ![t].pc = "running", ![t].session = o]
    /\ UNCHANGED << connection_sessions, disconnected >>
    /\ UNCHANGED picVars

\* line 168: the executor thread has run bot.run to its end and hands back
\* n response chunks (none when bot.run raised, lines 163-165)
BotRunDone(t) ==
    /\ tasks[t].pc = "running"
    /\ \E n \in 0..MaxChunks :
           tasks' = [tasks EXCEPT ![t].pc = "streaming", ![t].chunks = n]
    /\ UNCHANGED << connection_sessions, active_sessions, session_objs, disconnected >>
    /\ UNCHANGED picVars

\* lines 171-194: one pass of the loop over the chunks, up to the await after
\* the yield
StreamChunk(t) ==
    /\ tasks[t].pc = "streaming"
    /\ tasks[t].chunks > 0
    /\ IF session_objs[tasks[t].session].stop_flag
       THEN tasks' = [tasks EXCEPT ![t].pc = "stopped"]
       ELSE tasks' = [tasks EXCEPT ![t].chunks = @ - 1, ![t].final_content = @ + 1]
    /\ UNCHANGED << connection_sessions, active_sessions, session_objs, disconnected >>
    /\ UNCHANGED picVars

\* lines 196-207: after the loop, the reply is stored unless the stop flag
\* is up, and is_generating of the dict of this generation is reset
GenerateFinish(t) ==
    /\ \/ tasks[t].pc = "stopped"
       \/ tasks[t].pc = "streaming" /\ tasks[t].chunks = 0
    /\ LET id  == tasks[t].session_id
           o   == tasks[t].session
           add == tasks[t].final_content > 0 /\ ~session_objs[o].stop_flag
           a   == IF add THEN AddMessage(session_objs, active_sessions, id, "assistant")
                  ELSE << session_objs, active_sessions >>
       IN  /\ (add /\ id \notin DOMAIN active_sessions) => Len(session_objs) < MaxObjs
           /\ session_objs' = [a[1] EXCEPT ![o].is_generating = FALSE]
           /\ active_sessions' = a[2]
    /\ tasks' = [tasks EXCEPT ![t].pc = "done"]
    /\ UNCHANGED << connection_sessions, disconnected >>
    /\ UNCHANGED picVars

\* chat.py stop_generation (lines 125-143) and LLMService.stop_generation
\* (lines 83-98); it is accepted whenever the session id is in
\* active_sessions.  The field stop_accepted of a handler records that a stop
\* was accepted while its generate_response_stream was between its start and
\* the end of its loop.
StopGenerationEvent(sid) ==
    /\ sid \in connection_sessions
    /\ sid \in DOMAIN active_sessions
    /\ session_objs' = [session_objs EXCEPT ![active_sessions[sid]].stop_flag = TRUE]
    /\ tasks' = [t \in 1..Len(tasks) |->
                    IF tasks[t].session_id = sid /\ tasks[t].pc \in {"running", "streaming"}
                    THEN [tasks[t] EXCEPT !.stop_accepted = TRUE]
                    ELSE tasks[t]]
    /\ UNCHANGED << connection_sessions, active_sessions, disconnected >>
    /\ UNCHANGED picVars

\* chat.py clear_history (lines 162-178): the session is created anew
ClearHistory(sid) ==
    /\ sid \in connection_sessions
    /\ Len(session_objs) < MaxObjs
    /\ LET c == CreateSession(session_objs, active_sessions, sid)
       IN  session_objs' = c[1] /\ active_sessions' = c[2]
    /\ UNCHANGED << connection_sessions, tasks, disconnected >>
    /\ UNCHANGED picVars

NextChat ==
    \/ \E sid \in Sids : Connect(sid)
    \/ \E sid \in Sids : Disconnect(sid)
    \/ \E sid \in Sids : Message(sid)
    \/ \E t \in 1..Len(tasks) : GenerateStart(t)
    \/ \E t \in 1..Len(tasks) : BotRunDone(t)
    \/ \E t \in 1..Len(tasks) : StreamChunk(t)
    \/ \E t \in 1..Len(tasks) : GenerateFinish(t)
    \/ \E sid \in Sids : StopGenerationEvent(sid)
    \/ \E sid \in Sids : ClearHistory(sid)

SpecChat == InitChat /\ [][NextChat]_vars

\* C20: once the disconnect handler of a sid has run, connection_sessions
\* has no entry for the sid and active_sessions has none for its session id,
\* in every later state.
C20_DisconnectedStaysClean ==
    \A sid \in disconnected :
        sid \notin connection_sessions /\ sid \notin DOMAIN active_sessions


\* LLMService.is_generating (lines 100-110)
IsGenerating(session_id) ==
    /\ session_id \in DOMAIN active_sessions
    /\ session_objs[active_sessions[session_id]].is_generating

\* a call of generate_response_stream for the session has started (line 142)
\* and has not yet ended (line 207)
GenerationInProgress(session_id) ==
    \E t \in 1..Len(tasks) :
        /\ tasks[t].session_id = session_id
        /\ tasks[t].pc \in {"running", "streaming", "stopped"}

\* C21: for a connected client, is_generating(session_id) is True exactly
\* while a generation for that session is in progress, also when two message
\* events overlap or clear_history re-creates the session during a
\* generation.
C21_IsGeneratingExact ==
    \A sid \in connection_sessions : IsGenerating(sid) <=> GenerationInProgress(sid)


RECURSIVE AssistantMessages(_)
\* the assistant replies stored in the session dicts objs
AssistantMessages(objs) ==
    IF objs = << >> THEN 0
    ELSE Cardinality({ k \in 1..Len(Head(objs).messages) :
                          Head(objs).messages[k] = "assistant" })
         + AssistantMessages(Tail(objs))

\* C22: once a stop has been accepted for a session while a response for it
\* was being generated, that generation yields no further content chunk and
\* its reply is not appended to the history, whatever other events (message,
\* clear_history) come in between.
C22_AcceptedStopSilences ==
    [][ \A t \in 1..Len(tasks) :
          tasks[t].stop_accepted =>
            /\ tasks'[t].final_content = tasks[t].final_content
            /\ (tasks[t].pc # "done" /\ tasks'[t].pc = "done") =>
                   AssistantMessages(session_objs') = AssistantMessages(session_objs)
      ]_vars

====
